---- MODULE Spec2Model ----
(***************************************************************************)
(* A model of the chat repository's room coordination protocol:            *)
(*   - the ChatRoom durable object (apps/server/src/chat-room.ts): one      *)
(*     instance per room id, holding `sessions` and `messages`, with the    *)
(*     fetch handler and the close / message listeners of every accepted    *)
(*     server socket;                                                       *)
(*   - the client connection manager of apps/web/src/routes/chat.tsx.       *)
(* Every listener runs to completion on the room's event loop, so each is   *)
(* one atomic action.                                                       *)
(***************************************************************************)
EXTENDS Integers, Sequences, FiniteSets, TLC

\* ------------------------------------------------------------------ bounds
MaxConns == 3
MaxSteps == 5
MaxHistory == 22
MaxSends == 2
MaxDrops == 1
MaxSwitches == 2
MaxClientSteps == 11
MaxReconnectSends == 1
MaxFailSteps == 6
MaxQueueSends == 8
MaxMoves == 3

\* ------------------------------------------------------- program constants
\* this.messages.slice(-20)
HistoryLimit == 20

\* pendingMessages.length > 5 of isSendDisabled
MaxPendingDepth == 5

\* ------------------------------------------------------------ value spaces
Rooms == {"r1", "r2"}
Conns == 1..MaxConns
UserIds == {"u1", "u2"}
NoUser == "nouser"
NoType == "notype"
Null == "null"

\* Coordinates: Origin is [0, 0], which the page takes for no position
Origin == 0

\* currentUserCoordinates === null
NoCoordinates == 0 - 1
Positions == {1, 2}

\* The User objects clients put into a {type: "user"} event.
UserInputs ==
  { [id |-> "u1", name |-> "ann", coordinates |-> 0],
    [id |-> "u1", name |-> "ann", coordinates |-> 1],
    [id |-> "u2", name |-> "bob", coordinates |-> 0] }

\* The Message objects clients put into a {type: "message"} event.
MessageInputs ==
  { [id |-> << "m", 1 >>, content |-> << "text", "hi" >>, user |-> "u1",
     messageType |-> NoType],
    [id |-> << "m", 2 >>, content |-> << "text", "yo" >>, user |-> "u2",
     messageType |-> "text"] }

VARIABLES
  sessions,     \* ChatRoom.sessions of each room: a sequence of Session
  messages,     \* ChatRoom.messages of each room: a sequence of Message
  sock,         \* each connection's server socket: "none", "open", "closed";
                \* "lost" / "broken": the transport is gone and the close
                \* event not handled yet, send discards the frame / throws
  resp,         \* the status fetch answered the connection with (0: not yet)
  connRoom,     \* the room (durable object) the connection's request reached
  ident,        \* the user id auth.api.getSession resolved for the connection
  inbox,        \* the frames the room passed to server.send, per connection
  nextConn,     \* the next connection handle
  steps,        \* how many events the rooms have handled so far
  audience,     \* history: per room and message, the sockets it was sent to
  claimed,      \* history: the user ids each connection sent user events for
  supersededBy, \* history: the connection that registered a socket's identity
                \* while the socket held that identity's session (0: none)
  log,          \* history: per room, the frames broadcast so far, each with
                \* the sockets it was handed to
  \* ---- the ChatPage component of one browser (chat.tsx)
  session,             \* authClient.useSession() data: Null or the user id
  geohash,             \* React state geohash: Null or a room id
  chatMode,            \* React state chatMode: "nearby" or "business"
  activeBusiness,      \* React state activeBusiness: Null or its room id
  connectionState,     \* React state connectionState
  pendingMessages,     \* React state pendingMessages
  uiMessages,          \* React state messages: the visible transcript
  ws,                  \* ws.current: 0 (null) or a socket
  wsUrl,               \* wsUrl.current: Null or the room the URL names
  reconnectTimeoutRef, \* reconnectTimeoutRef.current: 0 (null) or a timer id
  timers,              \* the outstanding setTimeout callbacks
  hasCleanup,          \* the connection effect's last run returned its cleanup
  csock,               \* the browser's WebSocket objects
  wire,                \* the frames the browser sent on each socket
  taken,               \* how many frames of wire the room has handled
  seen,                \* how many frames of inbox the browser has handled
  sentCount,           \* how many messages the user has submitted
  queued,              \* history: the ids sendMessage put on pendingMessages
  queuedFor,           \* history: the room the page targeted at each of them
  drops,               \* how many connections the network has failed
  switches,            \* how many times the user has switched chat mode
  mounted,             \* the ChatPage component is mounted
  cachedGeohash,       \* localStorage "chat_geohash": Null or a room id
  lastFix,             \* history: the hash computed from the last position
  currentUserCoordinates, \* React state currentUserCoordinates
  positionTimers,      \* the outstanding 200 ms timeouts of the position effect
  positionTimeoutId    \* timeoutId of the last timeout the position effect set
                       \* (0: none yet); setTimeout returns increasing ids

roomVars == << sessions, messages, sock, resp, connRoom, ident, inbox, audience,
               claimed, supersededBy, log >>

clientVars == << session, geohash, chatMode, activeBusiness, connectionState,
                 pendingMessages, uiMessages, ws, wsUrl, reconnectTimeoutRef,
                 timers, hasCleanup, csock, wire, taken, seen, sentCount,
                 queued, queuedFor, drops, switches, mounted, cachedGeohash, lastFix,
                 currentUserCoordinates, positionTimers, positionTimeoutId >>

vars == << roomVars, nextConn, steps, clientVars >>

\* ----------------------------------------------------------------- helpers
\* A slice from the front: s.slice(0, n).
First(s, n) == IF Len(s) <= n THEN s ELSE SubSeq(s, 1, n)

\* s.slice(-n)
Last(s, n) == IF Len(s) <= n THEN s ELSE SubSeq(s, Len(s) - n + 1, Len(s))

Users(ss) == [i \in DOMAIN ss |-> ss[i].user]

RECURSIVE SeqOf(_)
SeqOf(S) ==
  IF S = {} THEN << >>
  ELSE LET x == CHOOSE x \in S : TRUE IN << x >> \o SeqOf(S \ {x})

\* The sockets of a sessions array that all rooms share.
SocketsOfAllRooms(ss) ==
  [i \in DOMAIN ss |-> ss[i].socket]
    \o SeqOf(UNION { { sessions[r][i].socket : i \in DOMAIN sessions[r] } :
                      r \in Rooms }
               \ { ss[i].socket : i \in DOMAIN ss })

\* this.sessions.map((s) => s.socket): the sessions of this room only
Sockets(ss) == [i \in DOMAIN ss |-> ss[i].socket]

SocketSet(ss) == { ss[i].socket : i \in DOMAIN ss }

HistoryFrame(ms) == [type |-> "history", messages |-> ms]

UsersFrame(us) == [type |-> "users", users |-> us]

\* A broadcast message is sent as the bare Message; seq is history: its index
\* in the room's messages.
MessageFrame(m, n) == [type |-> "message", data |-> m, seq |-> n]

SystemMessage(n, what, name) ==
  [id |-> <<"sys", n>>, content |-> <<name, what>>, user |-> "system",
   messageType |-> "system"]

\* A socket whose send puts the frame ahead of the frames already queued.
SendFront(box, c, frame) == [box EXCEPT ![c] = << frame >> \o @]

\* socket.send(frame): frames leave in the order they were sent
Send(box, c, frame) == [box EXCEPT ![c] = Append(@, frame)]

\* sockets.forEach((s) => s.send(frame)): nothing catches a send that throws,
\* so the loop ends there; a frame for a lost transport is discarded.
RECURSIVE SendEach(_, _, _)
SendEach(box, socks, frame) ==
  IF socks = << >> THEN box
  ELSE IF sock[Head(socks)] = "broken" THEN box
  ELSE IF sock[Head(socks)] = "lost" THEN SendEach(box, Tail(socks), frame)
  ELSE SendEach(Send(box, Head(socks), frame), Tail(socks), frame)

\* The forEach of a broadcast over ss throws
Throws(ss) == \E i \in DOMAIN ss : sock[ss[i].socket] = "broken"

\* The sockets of ss a broadcast hands its frame to
RECURSIVE Delivered(_)
Delivered(ss) ==
  IF ss = << >> \/ sock[Head(ss).socket] = "broken" THEN {}
  ELSE IF sock[Head(ss).socket] = "lost" THEN Delivered(Tail(ss))
  ELSE {Head(ss).socket} \cup Delivered(Tail(ss))

broadcast(box, ss, frame) == SendEach(box, Sockets(ss), frame)

\* A broadcastUsers whose frame overtakes what is queued for the first session.
broadcastUsersFront(box, ss) ==
  IF ss = << >> THEN box
  ELSE SendFront(SendEach(box, Sockets(Tail(ss)), UsersFrame(Users(ss))),
                 Head(ss).socket, UsersFrame(Users(ss)))

\* A broadcastUsers that leaves the last session of the array out.
broadcastUsersToOthers(box, ss) ==
  SendEach(box, Sockets(SubSeq(ss, 1, Len(ss) - 1)), UsersFrame(Users(ss)))

broadcastUsers(box, ss) == SendEach(box, Sockets(ss), UsersFrame(Users(ss)))

RECURSIVE FindIndex(_, _, _)
FindIndex(ss, id, i) ==
  IF i > Len(ss) THEN 0
  ELSE IF ss[i].user.id = id THEN i ELSE FindIndex(ss, id, i + 1)

\* A findIndex whose callback compares the wrong field (s.user.name === id).
RECURSIVE FindIndexByName(_, _, _)
FindIndexByName(ss, id, i) ==
  IF i > Len(ss) THEN 0
  ELSE IF ss[i].user.name = id THEN i ELSE FindIndexByName(ss, id, i + 1)

findIndexByName(ss, id) == FindIndexByName(ss, id, 1)

\* sessions.findIndex((s) => s.user.id === id), 1-based; 0 when absent
findIndex(ss, id) == FindIndex(ss, id, 1)

\* A filter whose callback keeps every session.
FilterNothing(ss, c) == ss

\* sessions.filter((s) => s.socket !== c)
RECURSIVE FilterSocket(_, _)
FilterSocket(ss, c) ==
  IF ss = << >> THEN << >>
  ELSE IF Head(ss).socket = c THEN FilterSocket(Tail(ss), c)
       ELSE << Head(ss) >> \o FilterSocket(Tail(ss), c)

\* sessions.find((s) => s.socket === c), 1-based; 0 when absent
RECURSIVE FindSocket(_, _, _)
FindSocket(ss, c, i) ==
  IF i > Len(ss) THEN 0
  ELSE IF ss[i].socket = c THEN i ELSE FindSocket(ss, c, i + 1)

\* The sockets of ss a broadcast hands its frame to, once per session
RECURSIVE Recipients(_)
Recipients(ss) ==
  IF ss = << >> \/ sock[Head(ss).socket] = "broken" THEN << >>
  ELSE IF sock[Head(ss).socket] = "lost" THEN Recipients(Tail(ss))
  ELSE << Head(ss).socket >> \o Recipients(Tail(ss))

\* The broadcast log after frame was broadcast over ss
Logged(lg, ss, frame) == Append(lg, [frame |-> frame, to |-> Recipients(ss)])

\* A WebSocket object of the browser: its readyState ("aborting": close() was
\* called while CONNECTING, the error event is still to come), the room of its
\* URL, the pendingMessages its handlers closed over, and whether its onclose
\* handler is still set.
NoSocket == [state |-> "none", url |-> Null, cap |-> << >>, onclose |-> FALSE]

\* --------------------------------------------------------------------- Init
Init ==
  /\ sessions = [r \in Rooms |-> << >>]
  /\ messages = [r \in Rooms |-> << >>]
  /\ sock = [c \in Conns |-> "none"]
  /\ resp = [c \in Conns |-> 0]
  /\ connRoom = [c \in Conns |-> "r1"]
  /\ ident = [c \in Conns |-> NoUser]
  /\ inbox = [c \in Conns |-> << >>]
  /\ nextConn = 1
  /\ steps = 0
  /\ audience = [r \in Rooms |-> << >>]
  /\ claimed = [c \in Conns |-> {}]
  /\ supersededBy = [c \in Conns |-> 0]
  /\ log = [r \in Rooms |-> << >>]
  \* ChatPage after its first render: no session yet, so the connection effect
  \* returned at once
  /\ session = Null
  /\ geohash = Null
  /\ chatMode = "nearby"
  /\ activeBusiness = Null
  /\ connectionState = "disconnected"
  /\ pendingMessages = << >>
  /\ uiMessages = << >>
  /\ ws = 0
  /\ wsUrl = Null
  /\ reconnectTimeoutRef = 0
  /\ timers = {}
  /\ hasCleanup = FALSE
  /\ csock = [c \in Conns |-> NoSocket]
  /\ wire = [c \in Conns |-> << >>]
  /\ taken = [c \in Conns |-> 0]
  /\ seen = [c \in Conns |-> 0]
  /\ sentCount = 0
  /\ queued = << >>
  /\ queuedFor = << >>
  /\ drops = 0
  /\ switches = 0
  /\ mounted = TRUE
  /\ cachedGeohash = Null
  /\ lastFix = Null
  /\ currentUserCoordinates = NoCoordinates
  /\ positionTimers = {}
  /\ positionTimeoutId = 0

\* ------------------------------------------------------------ ChatRoom.fetch
\* The request of connection c reaches room r. upgrade: the Upgrade header is
\* "websocket"; auth: the user id getSession resolves, or NoUser.
Status(upgrade, auth) == IF ~upgrade THEN 400 ELSE IF auth = NoUser THEN 401 ELSE 101

\* A fetch that forgets to return after building the 401 response.
ReachesAcceptNoReturn(status) == status # 400

\* The early returns of fetch: only a 101 gets past them.
ReachesAccept(status) == status = 101


fetch(c, r, upgrade, auth) ==
  /\ c \in Conns
  /\ resp[c] = 0
  /\ resp' = [resp EXCEPT ![c] = Status(upgrade, auth)]
  /\ IF ReachesAccept(Status(upgrade, auth))
       THEN /\ sock' = [sock EXCEPT ![c] = "open"]
            /\ connRoom' = [connRoom EXCEPT ![c] = r]
            /\ ident' = [ident EXCEPT ![c] = auth]
            /\ inbox' = Send(Send(inbox, c,
                                  HistoryFrame(Last(messages[r], HistoryLimit))),
                             c, UsersFrame(Users(sessions[r])))
       ELSE UNCHANGED << sock, connRoom, ident, inbox >>
  /\ UNCHANGED << sessions, messages, audience, claimed, supersededBy, log >>

\* ------------------------------------------------- the "close" listener of c
onClose(c) ==
  /\ sock[c] \in {"open", "lost", "broken"}
  /\ LET r == connRoom[c]
         leaving == FindSocket(sessions[r], c, 1)
         rest == FilterSocket(sessions[r], c)
         box1 == broadcastUsers(inbox, rest)
         n == Len(messages[r]) + 1
         leaveMessage == SystemMessage(n, "left", sessions[r][leaving].user.name)
     IN /\ sessions' = [sessions EXCEPT ![r] = rest]
        /\ IF leaving # 0 /\ ~Throws(rest)
             THEN /\ messages' = [messages EXCEPT ![r] = Append(@, leaveMessage)]
                  /\ inbox' = broadcast(box1, rest, MessageFrame(leaveMessage, n))
                  /\ audience' = [audience EXCEPT ![r] = Append(@, Delivered(rest))]
                  /\ log' = [log EXCEPT ![r] =
                               Logged(Logged(@, rest, UsersFrame(Users(rest))),
                                      rest, MessageFrame(leaveMessage, n))]
             ELSE /\ inbox' = box1
                  /\ log' = [log EXCEPT ![r] =
                               Logged(@, rest, UsersFrame(Users(rest)))]
                  /\ UNCHANGED << messages, audience >>
  /\ sock' = [sock EXCEPT ![c] = "closed"]
  /\ UNCHANGED << resp, connRoom, ident, claimed, supersededBy >>

\* ----------------------------------------------- the "message" listener of c
\* messageEvent.type === "message"
WithType(m) == IF m.messageType = NoType THEN [m EXCEPT !.messageType = "text"] ELSE m

onMessageMessage(c, m) ==
  /\ sock[c] = "open"
  /\ LET r == connRoom[c]
         newMessage == WithType(m)
         n == Len(messages[r]) + 1
     IN /\ messages' = [messages EXCEPT ![r] = Append(@, newMessage)]
        /\ inbox' = broadcast(inbox, sessions[r], MessageFrame(newMessage, n))
        /\ audience' = [audience EXCEPT ![r] = Append(@, Delivered(sessions[r]))]
        /\ log' = [log EXCEPT ![r] =
                     Logged(@, sessions[r], MessageFrame(newMessage, n))]
  /\ UNCHANGED << sessions, sock, resp, connRoom, ident, claimed, supersededBy >>

\* An assignment that is lost: the session keeps the user it had.
keepSessionUser(ss, i, userData) == ss

\* this.sessions[i].user = userData
setSessionUser(ss, i, userData) == [ss EXCEPT ![i].user = userData]

\* messageEvent.type === "user"
onMessageUser(c, userData) ==
  /\ sock[c] = "open"
  /\ LET r == connRoom[c]
         existingUserIndex == findIndex(sessions[r], userData.id)
         n == Len(messages[r]) + 1
         joinMessage == SystemMessage(n, "joined", userData.name)
         pushed == Append(sessions[r], [user |-> userData, socket |-> c])
         updated == setSessionUser(sessions[r], existingUserIndex, userData)
     IN IF existingUserIndex > 0
          THEN /\ sessions' = [sessions EXCEPT ![r] = updated]
               /\ inbox' = broadcastUsers(inbox, updated)
               /\ supersededBy' =
                    IF sessions[r][existingUserIndex].socket # c
                      THEN [supersededBy EXCEPT
                              ![sessions[r][existingUserIndex].socket] = c]
                      ELSE supersededBy
               /\ log' = [log EXCEPT ![r] =
                            Logged(@, updated, UsersFrame(Users(updated)))]
               /\ UNCHANGED << messages, audience >>
          ELSE /\ sessions' = [sessions EXCEPT ![r] = pushed]
               /\ messages' = [messages EXCEPT ![r] = Append(@, joinMessage)]
               /\ inbox' =
                    IF Throws(pushed)
                      THEN broadcast(inbox, pushed, MessageFrame(joinMessage, n))
                      ELSE broadcastUsers(
                             broadcast(inbox, pushed, MessageFrame(joinMessage, n)),
                             pushed)
               /\ audience' = [audience EXCEPT ![r] = Append(@, Delivered(pushed))]
               /\ log' = [log EXCEPT ![r] =
                            IF Throws(pushed)
                              THEN Logged(@, pushed, MessageFrame(joinMessage, n))
                              ELSE Logged(Logged(@, pushed,
                                                 MessageFrame(joinMessage, n)),
                                          pushed, UsersFrame(Users(pushed)))]
               /\ UNCHANGED supersededBy
  /\ claimed' = [claimed EXCEPT ![c] = @ \cup {userData.id}]
  /\ UNCHANGED << sock, resp, connRoom, ident >>

\* ---------------------------------------------------------------------- Next
\* One event of the rooms' event loops, within the budget of MaxSteps events.
Counted == steps < MaxSteps /\ steps' = steps + 1

Fetch == \E r \in Rooms, upgrade \in BOOLEAN, auth \in UserIds \cup {NoUser} :
           /\ fetch(nextConn, r, upgrade, auth)
           /\ nextConn' = nextConn + 1
           /\ Counted
           /\ UNCHANGED clientVars

Close == \E c \in Conns :
           onClose(c) /\ Counted /\ UNCHANGED << nextConn, clientVars >>

Publish == \E c \in Conns, m \in MessageInputs :
             onMessageMessage(c, m) /\ Counted /\ UNCHANGED << nextConn, clientVars >>

UserEvent == \E c \in Conns, u \in UserInputs :
               onMessageUser(c, u) /\ Counted /\ UNCHANGED << nextConn, clientVars >>

Next == Fetch \/ Close \/ Publish \/ UserEvent

Spec == Init /\ [][Next]_vars

\* One room whose clients send a user event for a registered identity only
\* when the position has changed, as the page does after its first user event.
Moved(c, u) ==
  LET at == findIndex(sessions[connRoom[c]], u.id)
  IN at > 0 => sessions[connRoom[c]][at].user.coordinates # u.coordinates

MoveFetch ==
  \E auth \in UserIds :
    /\ fetch(nextConn, "r1", TRUE, auth)
    /\ nextConn' = nextConn + 1
    /\ Counted
    /\ UNCHANGED clientVars

MoveUserEvent ==
  \E c \in Conns, u \in UserInputs :
    Moved(c, u) /\ onMessageUser(c, u) /\ Counted
      /\ UNCHANGED << nextConn, clientVars >>

MovePublish ==
  \E c \in Conns, m \in MessageInputs :
    onMessageMessage(c, m) /\ Counted /\ UNCHANGED << nextConn, clientVars >>

MoveClose ==
  \E c \in Conns : onClose(c) /\ Counted /\ UNCHANGED << nextConn, clientVars >>

MoveNext == MoveFetch \/ MoveUserEvent \/ MovePublish \/ MoveClose

MoveSpec == Init /\ [][MoveNext]_vars

\* A long run of one room: a first connection registers, publishes up to
\* MaxHistory messages and may close; every history frame is HistoryLimit long
\* at most, so the run has to pass that many messages.
HistoryUser == [id |-> "u1", name |-> "ann", coordinates |-> 0]

HistoryMessage ==
  [id |-> << "m", 1 >>, content |-> << "text", "hi" >>, user |-> "u1",
   messageType |-> "text"]

HistoryFetch ==
  /\ nextConn <= 2
  /\ fetch(nextConn, "r1", TRUE, "u1")
  /\ nextConn' = nextConn + 1
  /\ UNCHANGED << steps, clientVars >>

HistoryUserEvent ==
  \E c \in Conns :
    /\ claimed[c] = {}
    /\ onMessageUser(c, HistoryUser)
    /\ UNCHANGED << nextConn, steps, clientVars >>

HistoryPublish ==
  /\ Len(messages["r1"]) < MaxHistory
  /\ onMessageMessage(1, HistoryMessage)
  /\ UNCHANGED << nextConn, steps, clientVars >>

HistoryClose == onClose(1) /\ UNCHANGED << nextConn, steps, clientVars >>

HistoryNext == HistoryFetch \/ HistoryUserEvent \/ HistoryPublish \/ HistoryClose

HistorySpec == Init /\ [][HistoryNext]_vars

\* The transport of connection c is lost while its session may still be in
\* the room: until the close event is handled, a send to it either discards
\* the frame (throws = FALSE) or throws.
Lose(c, throws) ==
  /\ sock[c] = "open"
  /\ sock' = [sock EXCEPT ![c] = IF throws THEN "broken" ELSE "lost"]
  /\ UNCHANGED << sessions, messages, resp, connRoom, ident, inbox, audience,
                  claimed, supersededBy, log >>

\* One room whose connections can lose their transport, within the budget of
\* MaxFailSteps events.
FailCounted == steps < MaxFailSteps /\ steps' = steps + 1

FailFetch ==
  \E auth \in UserIds :
    /\ fetch(nextConn, "r1", TRUE, auth)
    /\ nextConn' = nextConn + 1
    /\ FailCounted
    /\ UNCHANGED clientVars

FailUserEvent ==
  \E c \in Conns, u \in UserInputs :
    u.id = ident[c] /\ onMessageUser(c, u) /\ FailCounted
      /\ UNCHANGED << nextConn, clientVars >>

FailPublish ==
  \E c \in Conns :
    onMessageMessage(c, HistoryMessage) /\ FailCounted
      /\ UNCHANGED << nextConn, clientVars >>

FailLose ==
  \E c \in Conns, throws \in BOOLEAN :
    Lose(c, throws) /\ FailCounted /\ UNCHANGED << nextConn, clientVars >>

FailClose ==
  \E c \in Conns : onClose(c) /\ FailCounted /\ UNCHANGED << nextConn, clientVars >>

FailNext == FailFetch \/ FailUserEvent \/ FailPublish \/ FailLose \/ FailClose

FailSpec == Init /\ [][FailNext]_vars

\* ------------------------------------------------- ChatPage (chat.tsx)
\* Each handler of the component runs together with the render and the
\* effects it causes. The refs and the state the connection effect and its
\* socket handlers write are gathered in one record, which the handlers
\* transform in program order:
Heap ==
  [ ws |-> ws, wsUrl |-> wsUrl, ref |-> reconnectTimeoutRef, timers |-> timers,
    cleanup |-> hasCleanup, csock |-> csock, wire |-> wire,
    cs |-> connectionState, pending |-> pendingMessages, next |-> nextConn,
    full |-> FALSE ]

Commit(h) ==
  /\ ws' = h.ws
  /\ wsUrl' = h.wsUrl
  /\ reconnectTimeoutRef' = h.ref
  /\ timers' = h.timers
  /\ hasCleanup' = h.cleanup
  /\ csock' = h.csock
  /\ wire' = h.wire
  /\ connectionState' = h.cs
  /\ pendingMessages' = h.pending
  /\ nextConn' = h.next

\* The user object the handlers build from session.user and
\* currentUserCoordinates || [0, 0].
ClientUser(sess) == [id |-> sess, name |-> "ann", coordinates |-> 0]

\* messageData of sendMessage; the id joins a timestamp and a random suffix.
ClientMessage(sess, n) ==
  [ type |-> "message",
    data |-> [id |-> << "m", n >>, content |-> << "text", "hi" >>,
              user |-> sess, messageType |-> "text"] ]

\* getWebSocketUrl, as the room the URL names
getWebSocketUrl(mode, hash, business) ==
  IF mode = "nearby" /\ hash # Null THEN hash
  ELSE IF mode = "business" /\ business # Null THEN business
  ELSE Null

\* ws.current.onclose = null; ws.current.close(); ws.current = null
closeCurrent(h) ==
  IF h.ws = 0 THEN h
  ELSE [h EXCEPT !.csock[h.ws].onclose = FALSE,
                 !.csock[h.ws].state =
                    IF @ = "connecting" THEN "aborting"
                    ELSE IF @ = "open" THEN "closing" ELSE @,
                 !.ws = 0]

\* clearTimeout(reconnectTimeoutRef.current); reconnectTimeoutRef.current = null
clearReconnect(h) ==
  IF h.ref = 0 THEN h
  ELSE [h EXCEPT !.timers = { t \in @ : t.id # h.ref }, !.ref = 0]

FreshTimer(ts) == CHOOSE n \in 1..(Cardinality(ts) + 1) : \A t \in ts : t.id # n

\* A handler that sets its timeout without looking at reconnectTimeoutRef.
scheduleReconnectAlways(h, k) ==
  LET id == FreshTimer(h.timers)
  IN [h EXCEPT !.timers = @ \cup {[id |-> id, cap |-> h.csock[k].cap,
                                    url |-> h.csock[k].url]},
               !.ref = id]

\* if (!reconnectTimeoutRef.current) reconnectTimeoutRef.current = setTimeout(...)
\* in a handler of socket k: the callback calls the connectWebSocket of the
\* effect run that made k (cap: the pendingMessages it closed over); url is
\* history: the room whose connection the timeout is to repair.
scheduleReconnect(h, k) ==
  IF h.ref # 0 THEN h
  ELSE LET id == FreshTimer(h.timers)
       IN [h EXCEPT !.timers = @ \cup {[id |-> id, cap |-> h.csock[k].cap,
                                         url |-> h.csock[k].url]},
                    !.ref = id]

\* connectWebSocket of the effect run that closed over cap; full: the model
\* has no socket left to create.
connectWebSocket(h, cap) ==
  IF h.wsUrl = Null THEN h
  ELSE IF h.next > MaxConns THEN [h EXCEPT !.full = TRUE]
  ELSE [h EXCEPT !.csock[h.next] =
                   [state |-> "connecting", url |-> h.wsUrl, cap |-> cap,
                    onclose |-> TRUE],
                 !.ws = h.next,
                 !.next = @ + 1]

\* The body of the connection effect, in the render whose state is in h.
effectBody(h, sess, url) ==
  IF sess = Null THEN [h EXCEPT !.cleanup = FALSE]
  ELSE IF url = Null THEN [h EXCEPT !.cs = "disconnected", !.cleanup = FALSE]
  ELSE IF url = h.wsUrl /\ h.cs \in {"connected", "connecting"} /\ h.ws # 0
    THEN [h EXCEPT !.cleanup = FALSE]
  ELSE LET h1 == clearReconnect(closeCurrent([h EXCEPT !.wsUrl = url]))
           h2 == [h1 EXCEPT !.cs = "connecting", !.cleanup = TRUE]
       IN connectWebSocket(h2, h.pending)

\* The cleanup the last run returned, if any
effectCleanup(h) == IF h.cleanup THEN clearReconnect(closeCurrent(h)) ELSE h

\* A dependency of the effect changed: cleanup of the last run, then the body
runEffect(h, sess, url) == effectBody(effectCleanup(h), sess, url)

\* socket.send of the browser: throws while CONNECTING (handled by the
\* caller), queues the frame while OPEN, discards it afterwards.
sendOn(h, k, frame) ==
  IF h.csock[k].state = "open" THEN [h EXCEPT !.wire[k] = Append(@, frame)] ELSE h

RECURSIVE sendAllOn(_, _, _)
sendAllOn(h, k, frames) ==
  IF frames = << >> THEN h
  ELSE sendAllOn(sendOn(h, k, Head(frames)), k, Tail(frames))

\* ws.onopen of socket k
onopen(h, k, sess) ==
  LET cap == h.csock[k].cap
      h1 == [h EXCEPT !.cs = "connected"]
      h2 == sendOn(h1, h1.ws, [type |-> "user", data |-> ClientUser(sess)])
  IN IF h1.ws = 0 \/ h1.csock[h1.ws].state = "connecting" THEN h1
     ELSE IF cap = << >> THEN h2
     ELSE [sendAllOn(h2, h1.ws, cap) EXCEPT !.pending = << >>]

\* ws.onmessage: the transcript after the frame
onmessage(ms, frame) ==
  IF frame.type = "history" THEN frame.messages
  ELSE IF frame.type = "users" THEN ms
  ELSE Append(ms, frame.data)

\* ws.onerror of socket k
onerror(h, k) == scheduleReconnect([h EXCEPT !.cs = "error"], k)

\* ws.onclose of socket k, when the handler is still set
onclose(h, k, wasClean) ==
  IF ~h.csock[k].onclose THEN h
  ELSE IF wasClean THEN [h EXCEPT !.cs = "disconnected"]
  ELSE scheduleReconnect([h EXCEPT !.cs = "disconnected"], k)

StateVars == << session, geohash, chatMode, activeBusiness >>

GeoVars == << cachedGeohash, lastFix >>

PosVars == << currentUserCoordinates, positionTimers, positionTimeoutId >>

\* A cleanup that leaves the timeout of the previous run pending.
keepTimeout(ts, id) == ts

\* return () => clearTimeout(timeoutId): the cleanup of the position effect
clearTimeout(ts, id) == { t \in ts : t.id # id }

\* The position effect runs in a render with the coordinates coords: the
\* cleanup of its last run, then a 200 ms timeout that is to send the user
\* frame if the socket is open, the session is loaded and coords are actual
\* coordinates.
positionEffect(coords, sess) ==
  LET cleared == clearTimeout(positionTimers, positionTimeoutId)
      id == positionTimeoutId + 1
  IN IF /\ ws # 0
        /\ csock[ws].state = "open"
        /\ sess # Null
        /\ coords # NoCoordinates
        /\ coords # Origin
       THEN /\ positionTimers' =
                 cleared \cup {[id |-> id,
                                userData |-> [ClientUser(sess) EXCEPT
                                                !.coordinates = coords]]}
            /\ positionTimeoutId' = id
       ELSE /\ positionTimers' = cleared
            /\ UNCHANGED positionTimeoutId

\* The coordinates of a position whose hash is the room hash
CoordinatesIn(hash) == IF hash = "r1" THEN 1 ELSE 2

\* authClient.useSession resolves: session is a dependency of the effect
SessionLoaded ==
  /\ mounted
  /\ session = Null
  /\ session' = "u1"
  /\ LET h == runEffect(Heap, "u1", getWebSocketUrl(chatMode, geohash, activeBusiness))
     IN ~h.full /\ Commit(h)
  /\ UNCHANGED << mounted, GeoVars, PosVars, geohash, chatMode, activeBusiness, uiMessages, taken, seen,
                  sentCount, queued, queuedFor, drops, switches, roomVars >>

\* setGeohash with the cached or the first computed hash
\* A success callback that follows every computed hash.
followFix(cached, newHash) == newHash

\* The hash the success callback of getCurrentPosition passes to setGeohash
keepCached(cached, newHash) == IF cached = Null THEN newHash ELSE cached

\* getCurrentPosition succeeds and newHash is the hash of the position; the
\* connection effect runs if geohash changes
getCurrentPositionSuccess(newHash) ==
  /\ mounted
  /\ currentUserCoordinates' = CoordinatesIn(newHash)
  /\ positionEffect(CoordinatesIn(newHash), session)
  /\ lastFix' = newHash
  /\ cachedGeohash' = IF cachedGeohash = Null THEN newHash ELSE cachedGeohash
  /\ geohash' = keepCached(cachedGeohash, newHash)
  /\ IF geohash' # geohash
       THEN LET h == runEffect(Heap, session,
                               getWebSocketUrl(chatMode, geohash', activeBusiness))
            IN ~h.full /\ Commit(h)
       ELSE Commit(Heap)
  /\ UNCHANGED << mounted, session, chatMode, activeBusiness, uiMessages, taken,
                  seen, sentCount, queued, queuedFor, drops, switches, roomVars >>

\* The first position of the page, in room r1
GeoFix == geohash = Null /\ getCurrentPositionSuccess("r1")

switchToBusiness(business) ==
  /\ mounted
  /\ chatMode = "nearby"
  /\ switches' = switches + 1
  /\ chatMode' = "business"
  /\ activeBusiness' = business
  /\ uiMessages' = << >>
  /\ LET h == runEffect([Heap EXCEPT !.cs = "connecting"], session,
                        getWebSocketUrl("business", geohash, business))
     IN ~h.full /\ Commit(h)
  /\ UNCHANGED << mounted, GeoVars, PosVars, session, geohash, taken, seen, sentCount, queued, queuedFor, drops,
                  roomVars >>

switchToNearby ==
  /\ mounted
  /\ chatMode = "business"
  /\ switches' = switches + 1
  /\ chatMode' = "nearby"
  /\ activeBusiness' = Null
  /\ uiMessages' = << >>
  /\ LET h == runEffect([Heap EXCEPT !.cs = "connecting"], session,
                        getWebSocketUrl("nearby", geohash, Null))
     IN ~h.full /\ Commit(h)
  /\ UNCHANGED << mounted, GeoVars, PosVars, session, geohash, taken, seen, sentCount, queued, queuedFor, drops,
                  roomVars >>

sendMessage ==
  /\ mounted
  /\ session # Null
  /\ sentCount' = sentCount + 1
  /\ LET messageData == ClientMessage(session, sentCount + 1)
     IN IF ws # 0 /\ csock[ws].state = "open"
          THEN /\ wire' = [wire EXCEPT ![ws] = Append(@, messageData)]
               /\ UNCHANGED << pendingMessages, uiMessages, connectionState, queued, queuedFor >>
          ELSE /\ pendingMessages' = Append(pendingMessages, messageData)
               /\ uiMessages' = Append(uiMessages, messageData.data)
               /\ connectionState' =
                    IF connectionState \in {"error", "disconnected"}
                      THEN "connecting" ELSE connectionState
               /\ queued' = Append(queued, messageData.data.id)
               /\ queuedFor' = Append(queuedFor,
                    getWebSocketUrl(chatMode, geohash, activeBusiness))
               /\ UNCHANGED wire
  /\ UNCHANGED << mounted, GeoVars, PosVars, StateVars, ws, wsUrl, reconnectTimeoutRef, timers, hasCleanup,
                  csock, taken, seen, drops, switches, nextConn, roomVars >>

\* isSendDisabled, with a message typed and no upload or recording going on
isSendDisabled ==
  connectionState # "connected" /\ Len(pendingMessages) > MaxPendingDepth

\* The send button: onClick={sendMessage} disabled={isSendDisabled}
sendButton == ~isSendDisabled /\ sendMessage

\* The Enter key in the input: handleKeyPress calls sendMessage
handleKeyPress == sendMessage

\* The handshake of socket k succeeded: readyState OPEN, then onopen
Open(k) ==
  /\ csock[k].state = "connecting"
  /\ resp[k] = 101
  /\ Commit(onopen([Heap EXCEPT !.csock[k].state = "open"], k, session))
  /\ UNCHANGED << mounted, GeoVars, PosVars, StateVars, uiMessages, taken, seen, sentCount, queued, queuedFor, drops,
                  switches, roomVars >>

\* The connection of socket k fails (refused, or lost once open): readyState
\* CLOSED, then the error event and the unclean close event
Fail(k) ==
  /\ csock[k].state \in {"connecting", "open"}
  /\ drops' = drops + 1
  /\ Commit(onclose(onerror([Heap EXCEPT !.csock[k].state = "closed"], k), k, FALSE))
  /\ UNCHANGED << mounted, GeoVars, PosVars, StateVars, uiMessages, taken, seen, sentCount, queued, queuedFor,
                  switches, roomVars >>

\* The transport closes the open socket k with a closing handshake: readyState
\* CLOSED, then the close event with wasClean true
CleanClose(k) ==
  /\ csock[k].state = "open"
  /\ drops' = drops + 1
  /\ Commit(onclose([Heap EXCEPT !.csock[k].state = "closed"], k, TRUE))
  /\ UNCHANGED << mounted, GeoVars, PosVars, StateVars, uiMessages, taken, seen, sentCount, queued, queuedFor,
                  switches, roomVars >>

\* close() was called on socket k while CONNECTING: the browser fails the
\* connection and fires the error event and the close event
Aborted(k) ==
  /\ csock[k].state = "aborting"
  /\ Commit(onclose(onerror([Heap EXCEPT !.csock[k].state = "closed"], k), k, FALSE))
  /\ UNCHANGED << mounted, GeoVars, PosVars, StateVars, uiMessages, taken, seen, sentCount, queued, queuedFor, drops,
                  switches, roomVars >>

\* A reconnect timer fires: reconnectTimeoutRef.current = null; connectWebSocket()
TimerFires(t) ==
  /\ t \in timers
  /\ LET h == connectWebSocket([Heap EXCEPT !.timers = @ \ {t}, !.ref = 0], t.cap)
     IN ~h.full /\ Commit(h)
  /\ UNCHANGED << mounted, GeoVars, PosVars, StateVars, uiMessages, taken, seen, sentCount, queued, queuedFor, drops,
                  switches, roomVars >>

\* watchPosition reports the position p, far enough from the last one for
\* shouldUpdate: setCurrentUserCoordinates, and the position effect runs
watchPositionSuccess(p) ==
  /\ mounted
  /\ p # currentUserCoordinates
  /\ currentUserCoordinates' = p
  /\ positionEffect(p, session)
  /\ UNCHANGED << mounted, GeoVars, StateVars, connectionState, pendingMessages,
                  uiMessages, ws, wsUrl, reconnectTimeoutRef, timers, hasCleanup,
                  csock, wire, taken, seen, sentCount, queued, queuedFor, drops, switches,
                  nextConn, roomVars >>

\* A timeout of the position effect fires: ws.current?.send(user frame); the
\* send reaches the wire only if the socket is open
PositionTimerFires(t) ==
  /\ t \in positionTimers
  /\ positionTimers' = positionTimers \ {t}
  /\ wire' = IF ws # 0
               THEN sendOn(Heap, ws, [type |-> "user", data |-> t.userData]).wire
               ELSE wire
  /\ UNCHANGED << mounted, GeoVars, StateVars, connectionState, pendingMessages,
                  uiMessages, ws, wsUrl, reconnectTimeoutRef, timers, hasCleanup,
                  csock, taken, seen, sentCount, queued, queuedFor, drops, switches, nextConn,
                  currentUserCoordinates, positionTimeoutId, roomVars >>

\* The next frame of the room reaches the open socket k
Receive(k) ==
  /\ csock[k].state = "open"
  /\ seen[k] < Len(inbox[k])
  /\ seen' = [seen EXCEPT ![k] = @ + 1]
  /\ uiMessages' = onmessage(uiMessages, inbox[k][seen[k] + 1])
  /\ UNCHANGED << mounted, GeoVars, PosVars, StateVars, connectionState, pendingMessages, ws, wsUrl,
                  reconnectTimeoutRef, timers, hasCleanup, csock, wire, taken,
                  sentCount, queued, queuedFor, drops, switches, nextConn, roomVars >>

\* ------------------------------------- the rooms, driven by the browser
\* The upgrade request of socket k reaches the room of its URL.
RoomFetch(k) ==
  /\ csock[k].state \in {"connecting", "aborting"}
  /\ fetch(k, csock[k].url, TRUE, session)
  /\ UNCHANGED << nextConn, clientVars >>

\* The upgrade request of socket k reaches the room with a cookie that
\* auth.api.getSession no longer resolves (the page's useSession data is
\* older than the cookie's expiry).
RoomFetchExpired(k) ==
  /\ csock[k].state \in {"connecting", "aborting"}
  /\ fetch(k, csock[k].url, TRUE, NoUser)
  /\ UNCHANGED << nextConn, clientVars >>

\* The browser gets the 401 for socket k: the handshake fails, readyState
\* CLOSED, then the error event and the unclean close event; the status is
\* not exposed to the page
Rejected(k) ==
  /\ csock[k].state = "connecting"
  /\ resp[k] = 401
  /\ Commit(onclose(onerror([Heap EXCEPT !.csock[k].state = "closed"], k), k, FALSE))
  /\ UNCHANGED << mounted, GeoVars, PosVars, StateVars, uiMessages, taken, seen, sentCount,
                  queued, queuedFor, drops, switches, roomVars >>

\* The room handles the next frame socket k sent.
RoomMessage(k) ==
  /\ taken[k] < Len(wire[k])
  /\ taken' = [taken EXCEPT ![k] = @ + 1]
  /\ LET frame == wire[k][taken[k] + 1]
     IN IF frame.type = "user" THEN onMessageUser(k, frame.data)
        ELSE onMessageMessage(k, frame.data)
  /\ UNCHANGED << mounted, GeoVars, PosVars, nextConn, StateVars, connectionState, pendingMessages,
                  uiMessages, ws, wsUrl, reconnectTimeoutRef, timers, hasCleanup,
                  csock, wire, seen, sentCount, queued, queuedFor, drops, switches >>

\* The room learns that socket k is gone: after the frames sent before a
\* close(), at any point after a failure.
RoomClose(k) ==
  /\ csock[k].state \in {"closing", "closed", "aborting"}
  /\ csock[k].state = "closing" => taken[k] = Len(wire[k])
  /\ onClose(k)
  /\ UNCHANGED << nextConn, clientVars >>

\* The component unmounts: the cleanup of the connection effect's last run
Unmount ==
  /\ mounted
  /\ mounted' = FALSE
  /\ Commit([effectCleanup(Heap) EXCEPT !.cleanup = FALSE])
  /\ positionTimers' = clearTimeout(positionTimers, positionTimeoutId)
  /\ UNCHANGED << currentUserCoordinates, positionTimeoutId >>
  /\ UNCHANGED << GeoVars, StateVars, uiMessages, taken, seen, sentCount, queued, queuedFor,
                  drops, switches, roomVars >>

\* One event of the browser or of the rooms, within the budget of
\* MaxClientSteps events.
ClientCounted == steps < MaxClientSteps /\ steps' = steps + 1

ClientNext ==
  \/ ClientCounted /\ SessionLoaded
  \/ ClientCounted /\ GeoFix
  \/ ClientCounted /\ switches < MaxSwitches /\ switchToBusiness("r2")
  \/ ClientCounted /\ switches < MaxSwitches /\ switchToNearby
  \/ ClientCounted /\ sentCount < MaxSends /\ sendMessage
  \/ ClientCounted /\ \E k \in Conns : Open(k)
  \/ ClientCounted /\ drops < MaxDrops /\ \E k \in Conns : Fail(k)
  \/ ClientCounted /\ \E k \in Conns : Aborted(k)
  \/ ClientCounted /\ \E t \in timers : TimerFires(t)
  \/ ClientCounted /\ \E t \in positionTimers : PositionTimerFires(t)
  \/ ClientCounted /\ \E k \in Conns : Receive(k)
  \/ ClientCounted /\ \E k \in Conns : RoomFetch(k)
  \/ ClientCounted /\ \E k \in Conns : RoomMessage(k)
  \/ ClientCounted /\ \E k \in Conns : RoomClose(k)

ClientSpec == Init /\ [][ClientNext]_vars

\* One browser that stays in its first room, submits up to MaxReconnectSends
\* messages and loses up to MaxDrops connections, run to the end.
ReconnectNext ==
  \/ UNCHANGED steps /\ SessionLoaded
  \/ UNCHANGED steps /\ GeoFix
  \/ UNCHANGED steps /\ sentCount < MaxReconnectSends /\ sendMessage
  \/ UNCHANGED steps /\ \E k \in Conns : Open(k)
  \/ UNCHANGED steps /\ drops < MaxDrops /\ \E k \in Conns : Fail(k)
  \/ UNCHANGED steps /\ \E t \in timers : TimerFires(t)
  \/ UNCHANGED steps /\ \E k \in Conns : Receive(k)
  \/ UNCHANGED steps /\ \E k \in Conns : RoomFetch(k)
  \/ UNCHANGED steps /\ \E k \in Conns : RoomMessage(k)
  \/ UNCHANGED steps /\ \E k \in Conns : RoomClose(k)

ReconnectSpec == Init /\ [][ReconnectNext]_vars

\* One browser that stays in its first room and may leave the page at any
\* point, run to the end.
ShutdownNext ==
  \/ UNCHANGED steps /\ SessionLoaded
  \/ UNCHANGED steps /\ GeoFix
  \/ UNCHANGED steps /\ Unmount
  \/ UNCHANGED steps /\ sentCount < MaxReconnectSends /\ sendMessage
  \/ UNCHANGED steps /\ \E k \in Conns : Open(k)
  \/ UNCHANGED steps /\ drops < MaxDrops /\ \E k \in Conns : Fail(k)
  \/ UNCHANGED steps /\ \E k \in Conns : Aborted(k)
  \/ UNCHANGED steps /\ \E t \in timers : TimerFires(t)
  \/ UNCHANGED steps /\ \E k \in Conns : Receive(k)
  \/ UNCHANGED steps /\ \E k \in Conns : RoomFetch(k)
  \/ UNCHANGED steps /\ \E k \in Conns : RoomMessage(k)
  \/ UNCHANGED steps /\ \E k \in Conns : RoomClose(k)

ShutdownSpec == Init /\ [][ShutdownNext]_vars

\* One browser whose user submits up to MaxQueueSends messages, by the button
\* or by the Enter key, before or after the page has its room.
QueueNext ==
  \/ UNCHANGED steps /\ SessionLoaded
  \/ UNCHANGED steps /\ GeoFix
  \/ UNCHANGED steps /\ sentCount < MaxQueueSends /\ sendButton
  \/ UNCHANGED steps /\ sentCount < MaxQueueSends /\ handleKeyPress
  \/ UNCHANGED steps /\ \E k \in Conns : Open(k)
  \/ UNCHANGED steps /\ \E k \in Conns : RoomFetch(k)
  \/ UNCHANGED steps /\ \E k \in Conns : RoomMessage(k)
  \/ UNCHANGED steps /\ \E k \in Conns : Receive(k)

QueueSpec == Init /\ [][QueueNext]_vars

\* One browser whose position is taken again and again, in any room
GeoNext ==
  \/ UNCHANGED steps /\ SessionLoaded
  \/ /\ UNCHANGED steps
     /\ positionTimeoutId < MaxMoves
     /\ \E newHash \in Rooms : getCurrentPositionSuccess(newHash)
  \/ UNCHANGED steps /\ \E t \in positionTimers : PositionTimerFires(t)
  \/ UNCHANGED steps /\ sentCount < MaxReconnectSends /\ sendMessage
  \/ UNCHANGED steps /\ \E k \in Conns : Open(k)
  \/ UNCHANGED steps /\ \E k \in Conns : Receive(k)
  \/ UNCHANGED steps /\ \E k \in Conns : RoomFetch(k)
  \/ UNCHANGED steps /\ \E k \in Conns : RoomMessage(k)

GeoSpec == Init /\ [][GeoNext]_vars

\* One browser in room r1 whose cookie can have expired when a request
\* reaches the room
AuthNext ==
  \/ UNCHANGED steps /\ SessionLoaded
  \/ UNCHANGED steps /\ GeoFix
  \/ UNCHANGED steps /\ sentCount < MaxReconnectSends /\ sendMessage
  \/ UNCHANGED steps /\ \E k \in Conns : RoomFetch(k)
  \/ UNCHANGED steps /\ \E k \in Conns : RoomFetchExpired(k)
  \/ UNCHANGED steps /\ \E k \in Conns : Open(k)
  \/ UNCHANGED steps /\ \E k \in Conns : Rejected(k)
  \/ UNCHANGED steps /\ \E t \in timers : TimerFires(t)
  \/ UNCHANGED steps /\ \E k \in Conns : RoomMessage(k)
  \/ UNCHANGED steps /\ \E k \in Conns : Receive(k)

AuthSpec == Init /\ [][AuthNext]_vars

\* One browser in room r1 whose position changes up to MaxMoves times
DebounceNext ==
  \/ UNCHANGED steps /\ SessionLoaded
  \/ UNCHANGED steps /\ GeoFix
  \/ /\ steps < MaxMoves
     /\ steps' = steps + 1
     /\ \E p \in Positions \cup {Origin} : watchPositionSuccess(p)
  \/ UNCHANGED steps /\ \E t \in positionTimers : PositionTimerFires(t)
  \/ UNCHANGED steps /\ \E k \in Conns : Open(k)
  \/ UNCHANGED steps /\ drops < MaxDrops /\ \E k \in Conns : Fail(k)
  \/ UNCHANGED steps /\ \E t \in timers : TimerFires(t)
  \/ UNCHANGED steps /\ \E k \in Conns : RoomFetch(k)
  \/ UNCHANGED steps /\ \E k \in Conns : RoomMessage(k)
  \/ UNCHANGED steps /\ Unmount

DebounceSpec == Init /\ [][DebounceNext]_vars

\* One browser that stays in its first room and on the page, whose
\* connections can fail or be closed by the transport, run to the end. A
\* timeout that is set fires, and a handshake that can proceed does.
LiveTimer == UNCHANGED steps /\ \E t \in timers : TimerFires(t)

LiveOpen == UNCHANGED steps /\ \E k \in Conns : Open(k)

LiveFetch == UNCHANGED steps /\ \E k \in Conns : RoomFetch(k)

LiveNext ==
  \/ UNCHANGED steps /\ SessionLoaded
  \/ UNCHANGED steps /\ GeoFix
  \/ UNCHANGED steps /\ sentCount < MaxReconnectSends /\ sendMessage
  \/ LiveOpen
  \/ UNCHANGED steps /\ drops < MaxDrops /\ \E k \in Conns : Fail(k)
  \/ UNCHANGED steps /\ drops < MaxDrops /\ \E k \in Conns : CleanClose(k)
  \/ LiveTimer
  \/ UNCHANGED steps /\ \E k \in Conns : Receive(k)
  \/ LiveFetch
  \/ UNCHANGED steps /\ \E k \in Conns : RoomMessage(k)
  \/ UNCHANGED steps /\ \E k \in Conns : RoomClose(k)

LiveSpec ==
  /\ Init
  /\ [][LiveNext]_vars
  /\ WF_vars(LiveTimer)
  /\ WF_vars(LiveOpen)
  /\ WF_vars(LiveFetch)

\* ------------------------------------------------------------------ claims
NameOf(id) == (CHOOSE u \in UserInputs : u.id = id).name

Count(ms, content) == Cardinality({ i \in DOMAIN ms : ms[i].content = content })

SessionsOf(r, id) == { i \in DOMAIN sessions[r] : sessions[r][i].user.id = id }

IsMessageFrame(f) == f.type = "message"

Accepted == { c \in Conns : sock[c] # "none" }

\* C1 (ordering): the message frames of every connection carry non-decreasing
\* acceptance indices, and a connection that was in the session set for the
\* broadcasts of messages i < j of its room holds a frame of i before a frame
\* of j.
C1_Ordering ==
  \A c \in Conns :
    LET r == connRoom[c]
        box == inbox[c]
    IN /\ \A p, q \in DOMAIN box :
            (p < q /\ IsMessageFrame(box[p]) /\ IsMessageFrame(box[q]))
              => box[p].seq <= box[q].seq
       /\ \A i, j \in DOMAIN messages[r] :
            (i < j /\ c \in audience[r][i] /\ c \in audience[r][j])
              => \E p, q \in DOMAIN box :
                   /\ p < q
                   /\ box[p] = MessageFrame(messages[r][i], i)
                   /\ box[q] = MessageFrame(messages[r][j], j)

\* Two published messages were broadcast to a connection in the session set.
C1_Witness ==
  \E c \in Conns : \E i, j \in DOMAIN messages[connRoom[c]] :
    /\ i < j
    /\ messages[connRoom[c]][i].messageType = "text"
    /\ messages[connRoom[c]][j].messageType = "text"
    /\ c \in audience[connRoom[c]][i] \cap audience[connRoom[c]][j]

\* C2 (history bound): the stored message sequence of every room is at most
\* HistoryLimit long.
C2_HistoryBound == \A r \in Rooms : Len(messages[r]) <= HistoryLimit

\* C3 (one session per identity): no two sessions of a room share a user id.
C3_OneSessionPerIdentity ==
  \A r \in Rooms : \A i, j \in DOMAIN sessions[r] :
    i # j => sessions[r][i].user.id # sessions[r][j].user.id

\* An identity with a session was registered again from another connection,
\* and some connection has closed.
C3_Witness ==
  \E a, b \in Conns :
    /\ supersededBy[a] # 0
    /\ sock[b] = "closed"
    /\ sessions[connRoom[a]] # << >>

\* C4 (idempotent reconnect): when the only two connections accepted so far
\* both registered the same identity in the same room, the older one is closed
\* and the newer one open, the room has exactly one session of that identity,
\* one join message for it and no leave message.
C4_IdempotentReconnect ==
  \A a, b \in Conns : \A id \in UserIds :
    ( /\ a < b
      /\ Accepted = {a, b}
      /\ connRoom[a] = connRoom[b]
      /\ claimed[a] = {id}
      /\ claimed[b] = {id}
      /\ sock[a] = "closed"
      /\ sock[b] = "open" )
    => /\ Cardinality(SessionsOf(connRoom[b], id)) = 1
       /\ Count(messages[connRoom[b]], << NameOf(id), "joined" >>) = 1
       /\ Count(messages[connRoom[b]], << NameOf(id), "left" >>) = 0

\* C5 (stale close is a no-op): when a socket whose identity was registered
\* again by a newer, still open connection closes, that identity keeps its
\* session, no message is appended and no frame is sent.
C5_StaleCloseIsNoOp ==
  [][ \A a \in Conns :
        ( /\ sock[a] = "open"
          /\ sock'[a] = "closed"
          /\ supersededBy[a] # 0
          /\ supersededBy[a] > a
          /\ sock[supersededBy[a]] = "open" )
        => /\ messages' = messages
           /\ inbox' = inbox
           /\ \A i \in DOMAIN sessions[connRoom[a]] :
                sessions[connRoom[a]][i].socket = a
                  => \E k \in DOMAIN sessions'[connRoom[a]] :
                       sessions'[connRoom[a]][k].user.id
                         = sessions[connRoom[a]][i].user.id ]_vars

\* The places (socket, position) where the browser transmitted message id
Transmissions(id) ==
  { << k, p >> \in Conns \X (1..(MaxSends + MaxConns + 1)) :
      /\ p \in DOMAIN wire[k]
      /\ wire[k][p].type = "message"
      /\ wire[k][p].data.id = id }

\* C6 (at-least-once client delivery): no queued message is ever transmitted
\* twice, and while the page is connected on an open socket every message
\* that was queued has been transmitted exactly once, queued messages that
\* went out on the same socket having gone out in the order of submission.
C6_AtLeastOnceDelivery ==
  /\ \A i \in DOMAIN queued : Cardinality(Transmissions(queued[i])) <= 1
  /\ (connectionState = "connected" /\ ws # 0 /\ csock[ws].state = "open")
       => /\ \A i \in DOMAIN queued : Cardinality(Transmissions(queued[i])) = 1
          /\ \A i, j \in DOMAIN queued :
               i < j => \A a \in Transmissions(queued[i]) :
                          \A b \in Transmissions(queued[j]) :
                            a[1] = b[1] => a[2] < b[2]

\* C7 (merge by id): no two entries of the visible transcript share a
\* message id.
C7_MergeById ==
  \A i, j \in DOMAIN uiMessages : i # j => uiMessages[i].id # uiMessages[j].id

\* C8 (unauthenticated admission): a request answered 401 gets no socket, no
\* frame and no session, and the step that answers it changes neither the
\* sessions nor the messages of any room.
C8_Unauthenticated ==
  /\ [](\A c \in Conns :
          resp[c] = 401
            => /\ sock[c] = "none"
               /\ inbox[c] = << >>
               /\ \A r \in Rooms : c \notin SocketSet(sessions[r]))
  /\ [][ \A c \in Conns :
           (resp[c] = 0 /\ resp'[c] = 401)
             => /\ sessions' = sessions
                /\ messages' = messages
                /\ inbox' = inbox
                /\ sock' = sock ]_vars

\* A request was answered 401 while its room had a session and a message.
C8_Witness ==
  \E c \in Conns : \E r \in Rooms :
    resp[c] = 401 /\ sessions[r] # << >> /\ messages[r] # << >>

\* C9 (admit snapshot): the frames a newly accepted connection holds are the
\* history of its room followed by a users frame that lists every session and
\* the identity of the new connection.
C9_AdmitSnapshot ==
  [][ \A c \in Conns :
        (sock[c] = "none" /\ sock'[c] = "open")
          => LET r == connRoom'[c]
                 box == inbox'[c]
             IN /\ Len(box) = 2
                /\ box[1] = HistoryFrame(messages[r])
                /\ box[2].type = "users"
                /\ { box[2].users[i].id : i \in DOMAIN box[2].users }
                     = { sessions[r][i].user.id : i \in DOMAIN sessions[r] }
                         \cup { ident'[c] } ]_vars

\* C10 (snapshot consistency): a message appended to a room while a connection
\* of that room stays open is sent to that connection.
C10_SnapshotConsistency ==
  [][ \A c \in Conns :
        (sock[c] = "open" /\ sock'[c] = "open")
          => LET r == connRoom[c]
                 n == Len(messages'[r])
             IN n > Len(messages[r])
                  => \E p \in DOMAIN inbox'[c] :
                       /\ p > Len(inbox[c])
                       /\ inbox'[c][p] = MessageFrame(messages'[r][n], n) ]_vars

\* Socket c gets frame in this step
GetsFrame(c, frame) ==
  \E p \in DOMAIN inbox'[c] : p > Len(inbox[c]) /\ inbox'[c][p] = frame

\* C11 (best-effort broadcast): in every step that appends a message to a
\* room or changes its session set, each session of the room whose socket is
\* open is sent the message, respectively the new list of users, whatever
\* happens to the sends to the other sessions.
C11_BestEffortBroadcast ==
  [][ \A r \in Rooms : \A i \in DOMAIN sessions'[r] :
        LET c == sessions'[r][i].socket
            n == Len(messages'[r])
        IN sock[c] = "open"
             => /\ n > Len(messages[r])
                     => GetsFrame(c, MessageFrame(messages'[r][n], n))
                /\ sessions'[r] # sessions[r]
                     => GetsFrame(c, UsersFrame(Users(sessions'[r]))) ]_vars

\* C12 (one reconnect timer): at most one reconnect timeout is outstanding,
\* and it is the one reconnectTimeoutRef holds.
C12_OneReconnectTimer ==
  /\ Cardinality(timers) <= 1
  /\ \A t \in timers : t.id = reconnectTimeoutRef

\* A connection failed: its error event scheduled the timer and its close
\* event found the timer pending.
C12_Witness ==
  /\ drops > 0
  /\ timers # {}
  /\ connectionState = "disconnected"

\* C13 (shutdown cancels the reconnect): once the cleanup of the unmount has
\* run, no reconnect timeout is outstanding and no socket is connecting or
\* open.
C13_ShutdownCancels ==
  ~mounted => /\ timers = {}
              /\ \A k \in Conns : csock[k].state \notin {"connecting", "open"}

\* C14 (room switch): every socket the page creates goes to the room the page
\* is in now, and a reconnect timeout that fires was scheduled for a
\* connection to that room.
C14_RoomSwitch ==
  [][ \A k \in Conns :
        (csock[k].state = "none" /\ csock'[k].state = "connecting")
          => LET key == getWebSocketUrl(chatMode', geohash', activeBusiness')
             IN /\ csock'[k].url = key
                /\ StateVars' = StateVars
                     => \A t \in timers \ timers' : t.url = key ]_vars

\* The page has a room key and its connection state is not connected
NeedsConnection ==
  /\ mounted
  /\ session # Null
  /\ getWebSocketUrl(chatMode, geohash, activeBusiness) # Null
  /\ connectionState \in {"disconnected", "connecting", "error"}

\* A connection attempt is under way or has succeeded
Attempting == ws # 0 /\ csock[ws].state \in {"connecting", "open"}

\* C15 (no terminal state): whenever the page has a room key and is
\* disconnected, connecting or in error, a connection attempt follows.
C15_NoTerminalState == NeedsConnection ~> Attempting

\* C16 (bounded pending queue): pendingMessages is never longer than the
\* length at which the send button is disabled, one more than the limit of
\* MaxPendingDepth.
C16_QueueBound == Len(pendingMessages) <= MaxPendingDepth + 1

\* frame, once for every occurrence of socket c in the recipients to
RECURSIVE Copies(_, _, _)
Copies(to, c, frame) ==
  IF to = << >> THEN << >>
  ELSE IF Head(to) = c THEN << frame >> \o Copies(Tail(to), c, frame)
       ELSE Copies(Tail(to), c, frame)

\* The frames of the broadcast log lg that were handed to socket c, in order
RECURSIVE HandedTo(_, _)
HandedTo(lg, c) ==
  IF lg = << >> THEN << >>
  ELSE Copies(Head(lg).to, c, Head(lg).frame) \o HandedTo(Tail(lg), c)

Range(f) == { f[i] : i \in DOMAIN f }

\* C17 (same order for all observers): after its history and users frames of
\* the connect, every connection holds exactly the broadcasts of its room that
\* were handed to it, in the order the room made them; so any two events two
\* connections both hold are in the same order on both.
C17_SameOrder ==
  \A c \in Conns :
    sock[c] # "none"
      => /\ Len(inbox[c]) >= 2
         /\ SubSeq(inbox[c], 3, Len(inbox[c])) = HandedTo(log[connRoom[c]], c)

\* Two connections of a room were both handed a message and, later, a list of
\* users.
C17_Witness ==
  \E a, b \in Conns : \E i, j \in DOMAIN log[connRoom[a]] :
    /\ a # b
    /\ connRoom[a] = connRoom[b]
    /\ i < j
    /\ log[connRoom[a]][i].frame.type = "message"
    /\ log[connRoom[a]][j].frame.type = "users"
    /\ {a, b} \subseteq Range(log[connRoom[a]][i].to)
    /\ {a, b} \subseteq Range(log[connRoom[a]][j].to)

\* Room r is untouched by this step: its sessions and messages stay and
\* none of its connections is handed a frame
Untouched(r) ==
  /\ sessions'[r] = sessions[r]
  /\ messages'[r] = messages[r]
  /\ \A c \in Conns :
       (sock[c] # "none" /\ connRoom[c] = r) => inbox'[c] = inbox[c]

\* C18 (room isolation): every step is the step of one room, the room of the
\* connection that is accepted or closed in it if there is one, and leaves
\* every other room untouched.
C18_RoomIsolation ==
  [][ \E r \in Rooms :
        /\ \A c \in Conns : sock'[c] # sock[c] => connRoom'[c] = r
        /\ \A other \in Rooms \ {r} : Untouched(other) ]_vars

\* Both rooms have a session and one of them has a published message.
C18_Witness ==
  /\ \A r \in Rooms : sessions[r] # << >>
  /\ \E r \in Rooms : \E i \in DOMAIN messages[r] : messages[r][i].user # "system"

\* C19 (one connection at a time): at most one socket of the page is
\* connecting or open.
C19_OneConnection ==
  Cardinality({ k \in Conns : csock[k].state \in {"connecting", "open"} }) <= 1

\* C20 (room key stability): the persisted key never changes once set, and
\* geohash changes only in a step that finds no key persisted.
C20_RoomKeyStability ==
  [][ /\ cachedGeohash # Null => cachedGeohash' = cachedGeohash
      /\ geohash' # geohash => cachedGeohash = Null ]_vars

\* With a key persisted and active on an open socket, the last position gave
\* another key.
C20_Witness ==
  /\ cachedGeohash # Null
  /\ lastFix # cachedGeohash
  /\ geohash = cachedGeohash
  /\ ws # 0
  /\ csock[ws].state = "open"

NewCopies(c, frame) ==
  Cardinality({ p \in DOMAIN inbox'[c] :
                  p > Len(inbox[c]) /\ inbox'[c][p] = frame })

\* This step is the message listener of a connection of room r taking a
\* message event
Publishes(r) ==
  /\ Len(messages'[r]) = Len(messages[r]) + 1
  /\ sessions' = sessions
  /\ sock' = sock

\* C23 (publish fan-out): in every step that publishes a message in a room,
\* each connection that has a session in the room, the sender included, is
\* sent that message exactly once.
C23_DeliveredOnce ==
  [][ \A r \in Rooms :
        Publishes(r)
          => LET n == Len(messages'[r])
             IN \A c \in SocketSet(sessions[r]) :
                  NewCopies(c, MessageFrame(messages'[r][n], n)) = 1 ]_vars

\* C24 (replace on re-admit): in every step in which connection c registers
\* the identity of a session that another connection a holds, a is closed, no
\* message is appended, the session's socket becomes c, and c is sent the
\* users frame broadcast in that step.
C24_SessionReplaced ==
  [][ \A a, c \in Conns :
        (a # c /\ supersededBy'[a] = c /\ supersededBy[a] # c)
          => LET r == connRoom[c]
             IN /\ sock'[a] = "closed"
                /\ messages'[r] = messages[r]
                /\ Len(sessions'[r]) = Len(sessions[r])
                /\ \A i \in DOMAIN sessions[r] :
                     sessions[r][i].socket = a
                       => sessions'[r][i].socket = c
                /\ GetsFrame(c, UsersFrame(Users(sessions'[r]))) ]_vars

\* Connection c owns a session of its room
OwnsSession(c) == c \in SocketSet(sessions[connRoom[c]])

\* C25 (sender validation): a step that appends a published message to a room
\* is the step of a connection that owns a session of the room; so whenever no
\* open connection of a room owns a session, no step publishes in that room.
C25_SenderValidated ==
  [][ \A r \in Rooms :
        Publishes(r)
          => \E c \in Conns :
               sock[c] = "open" /\ connRoom[c] = r /\ OwnsSession(c) ]_vars

\* This step is the user listener of a connection of room r taking a user
\* event for an identity that has a session: a users frame is broadcast, no
\* socket is accepted or closed and no session is created or removed
UpdatesPresence(r) ==
  /\ sock' = sock
  /\ Len(sessions'[r]) = Len(sessions[r])
  /\ Len(log'[r]) > Len(log[r])
  /\ log'[r][Len(log[r]) + 1].frame.type = "users"

C27_IdentityFixed ==
  [][ \A r \in Rooms :
        /\ \A i \in DOMAIN sessions'[r] :
             LET s == sessions'[r][i]
             IN /\ s.user.id = ident'[s.socket]
                /\ s.user.name = NameOf(ident'[s.socket])
        /\ Len(sessions'[r]) = Len(sessions[r])
             => \A i \in DOMAIN sessions[r] :
                  /\ sessions'[r][i].user.id = sessions[r][i].user.id
                  /\ sessions'[r][i].user.name = sessions[r][i].user.name
        /\ \A a, c \in Conns :
             (a # c /\ supersededBy'[a] = c /\ supersededBy[a] # c)
               => \A i \in DOMAIN sessions[r] :
                    sessions[r][i].socket = a
                      => sessions'[r][i] = sessions[r][i] ]_vars

\* C28 (failed recipient is removed): in every step in which a room
\* broadcasts, no session that remains in the room's session set has a socket
\* whose send throws; a recipient the broadcast failed on is out of the set
\* once the step is over.
C28_FailedRecipientRemoved ==
  [][ \A r \in Rooms :
        Len(log'[r]) > Len(log[r]) => ~Throws(sessions'[r]) ]_vars

\* C29 (flush on open): in every step in which the handshake of the page's
\* current socket succeeds, the socket is sent the user frame and then the
\* messages of the pending queue in their order, and the pending queue is
\* empty afterwards.
C29_FlushOnOpen ==
  [][ \A k \in Conns :
        (csock[k].state = "connecting" /\ csock'[k].state = "open" /\ ws = k)
          => /\ wire'[k] = (wire[k]
                              \o << [type |-> "user", data |-> ClientUser(session)] >>)
                             \o pendingMessages
             /\ pendingMessages' = << >> ]_vars

\* C30 (error state while the reconnect is pending): in every step in which
\* the connection of a connecting or open socket fails, the page's connection
\* state becomes error and exactly one reconnect timeout is outstanding
\* afterwards.
C30_ErrorWhileReconnecting ==
  [][ \A k \in Conns :
        (csock[k].state \in {"connecting", "open"} /\ csock'[k].state = "closed")
          => /\ connectionState' = "error"
             /\ reconnectTimeoutRef' # 0
             /\ Cardinality(timers') = 1 ]_vars

\* This step is a timeout of the position effect firing
PositionSend == \E t \in positionTimers : positionTimers' = positionTimers \ {t}

\* C31 (position updates are coalesced): at most one timeout of the position
\* effect is outstanding and it holds the current coordinates; a change of the
\* coordinates sends nothing by itself; and a timeout that fires sends at most
\* one user frame, which carries the current coordinates.
C31_Coalesced ==
  [][ /\ Cardinality(positionTimers') <= 1
      /\ \A t \in positionTimers' :
           t.userData.coordinates = currentUserCoordinates'
      /\ currentUserCoordinates' # currentUserCoordinates => wire' = wire
      /\ PositionSend
           => \A k \in Conns :
                \/ wire'[k] = wire[k]
                \/ /\ Len(wire'[k]) = Len(wire[k]) + 1
                   /\ wire'[k][Len(wire'[k])].type = "user"
                   /\ wire'[k][Len(wire'[k])].data.coordinates
                        = currentUserCoordinates ]_vars

\* The position effect has set two timeouts and none is outstanding, no
\* connection has failed and the page is mounted; the socket was sent one
\* user frame after that of its open handler, with the current coordinates.
C31_Witness ==
  /\ mounted
  /\ drops = 0
  /\ positionTimeoutId = 2
  /\ positionTimers = {}
  /\ ws # 0
  /\ Len(wire[ws]) = 2
  /\ wire[ws][2].type = "user"
  /\ wire[ws][2].data.coordinates = currentUserCoordinates

\* C32 (unauthenticated is terminal): in every step in which the browser
\* fails the handshake of a socket that the room answered with 401, no
\* reconnect timeout is outstanding afterwards.
C32_NoRetryAfter401 ==
  [][ \A k \in Conns :
        (resp[k] = 401 /\ csock[k].state = "connecting"
           /\ csock'[k].state = "closed")
          => reconnectTimeoutRef' = 0 /\ timers' = {} ]_vars

\* C33 (unique message ids): no two messages of a room's history have the
\* same id.
C33_UniqueIds ==
  \A r \in Rooms : \A i, j \in DOMAIN messages[r] :
    i # j => messages[r][i].id # messages[r][j].id

\* C34 (history replay): the first frame of every newly accepted connection
\* is a history frame that holds exactly the last min(HistoryLimit, n) of the
\* n messages of its room, in the order they were appended.
C34_HistoryReplay ==
  [][ \A c \in Conns :
        (sock[c] = "none" /\ sock'[c] = "open")
          => LET r == connRoom'[c]
                 n == Len(messages[r])
                 k == IF n < HistoryLimit THEN n ELSE HistoryLimit
             IN inbox'[c][1]
                  = HistoryFrame([i \in 1..k |-> messages[r][n - k + i]]) ]_vars

\* A connection was accepted when its room had more than HistoryLimit
\* messages: its history frame is HistoryLimit long and starts later than the
\* room's first message, the join message.
C34_Witness ==
  \E c \in Conns :
    /\ sock[c] # "none"
    /\ Len(inbox[c]) >= 1
    /\ inbox[c][1].type = "history"
    /\ Len(inbox[c][1].messages) = HistoryLimit
    /\ Len(messages[connRoom[c]]) > HistoryLimit
    /\ messages[connRoom[c]][1].messageType = "system"
    /\ inbox[c][1].messages[1].messageType = "text"

\* C35 (the queue belongs to one room): a message that was queued while the
\* page targeted a room is transmitted only on sockets of that room.
C35_QueueStaysInRoom ==
  \A i \in DOMAIN queued :
    queuedFor[i] \in Rooms
      => \A t \in Transmissions(queued[i]) : csock[t[1]].url = queuedFor[i]

\* C36 (one session per connection): no socket is the socket of two sessions
\* of a room.
C36_OneSessionPerConnection ==
  \A r \in Rooms : \A i, j \in DOMAIN sessions[r] :
    i # j => sessions[r][i].socket # sessions[r][j].socket

\* C37 (join and leave are balanced): for every room and identity, the number
\* of join messages for it minus the number of leave messages for it in the
\* room's messages is 1 when the identity has a session and 0 when it has
\* none.
C37_JoinLeaveBalanced ==
  \A r \in Rooms : \A id \in UserIds :
    Count(messages[r], << NameOf(id), "joined" >>)
      - Count(messages[r], << NameOf(id), "left" >>)
      = IF SessionsOf(r, id) # {} THEN 1 ELSE 0

\* C38 (the flag claims no progress that is not happening): while the
\* connection state is connecting a socket of the page is connecting or a
\* reconnect timeout is outstanding, and while it is connected the page's
\* current socket is open.
C38_FlagIsTrue ==
  /\ connectionState = "connecting"
       => \/ \E k \in Conns : csock[k].state = "connecting"
          \/ timers # {}
  /\ connectionState = "connected"
       => ws # 0 /\ csock[ws].state = "open"

\* The page has handled a frame that carries message id
EchoReceived(id) ==
  \E k \in Conns : \E p \in 1..seen[k] :
    LET f == inbox[k][p]
    IN \/ f.type = "message" /\ f.data.id = id
       \/ f.type = "history"
            /\ \E j \in DOMAIN f.messages : f.messages[j].id = id

\* C39 (optimistic entries stay): every message sendMessage queued and showed
\* is in the visible transcript unless the page has received it from the
\* room.
C39_OptimisticKept ==
  \A i \in DOMAIN queued :
    \/ \E j \in DOMAIN uiMessages : uiMessages[j].id = queued[i]
    \/ EchoReceived(queued[i])

====
